---- MODULE Spec2Model ----
(***************************************************************************)
(* Garage door monitor (ESP8266 sketch, src/unnamed/part_001): debounced   *)
(* switch input, on-demand Wi-Fi + MQTT session, retained status publish   *)
(* and the post-publish connectivity window.                               *)
(*                                                                         *)
(* Time is the value of millis().  It is an unsigned counter that wraps;   *)
(* the model keeps the wrap-around but scales the width down to TimeMod    *)
(* values and scales the millisecond constants with it (one unit is one    *)
(* delay(10)); time passes in the delay() calls of the polling loop and of *)
(* loop().  The sketch is a single thread: setup() once, then              *)
(* loop() forever.  pc is the position of that thread; the radio link and  *)
(* the broker session change under it through the environment actions.     *)
(***************************************************************************)
EXTENDS Integers, Sequences, FiniteSets, TLC

\* ---------- bounds of the model ----------
TimeMod == 8           \* number of values of the wrapping millis() counter
MaxDelay == 2          \* longest time one delay(10) at the end of loop() takes
StableCap == 3         \* the observer's elapsed-time counter saturates here

\* ---------- program constants (time constants in model units) ----------
ACTIVE_LOW == TRUE
DEBOUNCE_MS == 2
WINDOW_MS == 3
WIFI_TIMEOUT_MS == 2
PUBLISH_ON_BOOT == TRUE
WILL_MSG == "false"
BIRTH_MSG == "true"
STATUS_RETAINED == TRUE

VARIABLES
    now,              \* millis()
    lastStable,       \* stable logical state (TRUE = open)
    lastRead,         \* last raw read mapped to logical
    lastBounceAt,     \* last time the raw read changed
    dirty,            \* there is an unsent latest status
    windowDeadline,   \* remain connected until this time; 0 = never published
    wifi,             \* radio: "off", "nolink" (radio on, no link), "linked"
    mqtt,             \* mqtt.connected()
    will,             \* last-will payload the broker holds for the session
    pc,               \* position of the sketch
    inSetup,          \* ensureMqttAndPublishIfDirty was called from setup()
    start,            \* local `start` of wifiEnsureConnected
    retainedStatus,   \* broker: retained value of TOPIC_STATUS
    retainedOnline,   \* broker: retained value of TOPIC_ONLINE
    envGood,          \* from now on link, session and publish succeed
    \* ----- observers (written, never read, by the sketch) -----
    outcome,          \* what ensureMqttAndPublishIfDirty did in this tick
    sleptFrom,        \* session state wifiRadioSleep was last called in, this tick
    stableFor,        \* true time since the sampled raw value last changed
    reportsInRun,     \* changes reported since the sampled raw value last changed
    pubsInPeriod,     \* successful status publishes since dirty was last raised
    changesInPeriod,  \* stable-state changes since dirty was last raised
    totalPubs,        \* successful status publishes so far (saturates at 2)
    runDiffers,       \* the current run of equal samples began unlike lastStable
    firstMsg,         \* the first status message ever published
    bootState,        \* the stable state read in setup()
    reportedBeforeFirst, \* a door transition was reported before firstMsg
    publishedAt,      \* millis() at the last successful status publish
    connectLog,       \* the call sites of mqttConnect in this tick, in order
    changedAtExpiry,  \* this tick reported a change with the session live
                      \* and the window over
    watch             \* the groups of observers that are recording

vars == <<now, lastStable, lastRead, lastBounceAt, dirty, windowDeadline,
          wifi, mqtt, will, pc, inSetup, start, retainedStatus,
          retainedOnline, envGood, outcome, sleptFrom, stableFor,
          reportsInRun, pubsInPeriod, changesInPeriod, totalPubs,
          runDiffers, firstMsg, bootState,
          reportedBeforeFirst, publishedAt, connectLog, changedAtExpiry,
          watch>>

prog == <<lastStable, lastRead, lastBounceAt, dirty, windowDeadline>>
session == <<wifi, mqtt, will>>
broker == <<retainedStatus, retainedOnline>>
debounceObs == <<reportsInRun, runDiffers, watch>>
pubObs == <<pubsInPeriod, changesInPeriod, totalPubs, firstMsg,
           reportedBeforeFirst, publishedAt>>
tickObs == <<connectLog, changedAtExpiry>>

Time == 0..(TimeMod - 1)
PinLevels == {"LOW", "HIGH"}
NoMsg == [payload |-> "none", retained |-> FALSE]
Failures == {"link_timeout", "session_rejected", "publish_failed"}

Min(a, b) == IF a < b THEN a ELSE b

\* an observer of group g records `new` when the group is recording
Obs(g, new, old) == IF g \in watch THEN new ELSE old

\* unsigned (wrapping) arithmetic of unsigned long
Plus(a, b) == (a + b) % TimeMod
Minus(a, b) == (a - b + TimeMod) % TimeMod
\* (long)x >= 0 for an unsigned x
SignedNonNeg(x) == 2 * x < TimeMod

readLogical(v) ==
    LET active == (v = "LOW")
    IN  IF ACTIVE_LOW THEN ~active ELSE active

\* variant: the two status strings swapped
statusString_Swapped(logicalOpen) == IF logicalOpen THEN "closed" ELSE "open"

statusString(logicalOpen) == IF logicalOpen THEN "open" ELSE "closed"

\* the session states of the connectivity manager
SessionState(w, m) ==
    IF w = "off" THEN "RadioOff"
    ELSE IF w = "nolink" THEN "RadioOnNoLink"
    ELSE IF m THEN "RadioOnLinkedWithSession"
    ELSE "RadioOnLinkedNoSession"

\* time passes: the clock and the observer's saturating counter move together
Elapse(dt) ==
    /\ now' = Plus(now, dt)
    /\ stableFor' = Obs("debounce", Min(StableCap, stableFor + dt), stableFor)

NoElapse == UNCHANGED <<now, stableFor>>

\* ---------- Wi-Fi radio control (part_001:54-61) ----------
\* variant: the radio is powered down only when a broker session was live
wifiRadioSleepTo_OnlyLive(w, m) ==
    [wifi |-> IF m THEN "off" ELSE w, mqtt |-> FALSE]

\* session after wifiRadioSleep(), whatever it was before
wifiRadioSleepTo(w, m) == [wifi |-> "off", mqtt |-> FALSE]

\* wifiRadioSleep(): clean MQTT disconnect (the broker drops the will), radio
\* off.  Called from setup() and from step 3 of loop(); delay(1) is below the
\* resolution of the model's clock.
wifiRadioSleep ==
    /\ pc = "sleep"
    /\ wifi' = wifiRadioSleepTo(wifi, mqtt).wifi
    /\ mqtt' = wifiRadioSleepTo(wifi, mqtt).mqtt
    /\ will' = "none"
    /\ sleptFrom' = SessionState(wifi, mqtt)
    /\ pc' = IF inSetup THEN "setup_boot" ELSE "delay"
    /\ NoElapse
    /\ UNCHANGED <<prog, inSetup, start, broker, envGood, outcome,
                   debounceObs, pubObs, bootState, tickObs>>

\* ---------- setup() (part_001:147-166) ----------
\* lines 153-160: initialise the state from the current reading, then sleep
setup ==
    /\ pc = "setup"
    /\ \E v \in PinLevels :
          /\ lastRead' = readLogical(v)
          /\ lastStable' = readLogical(v)
          /\ bootState' = Obs("boot", readLogical(v), bootState)
    /\ lastBounceAt' = now
    /\ stableFor' = 0
    /\ now' = now
    /\ pc' = "sleep"
    /\ UNCHANGED <<dirty, windowDeadline, session, inSetup, start, broker,
                   envGood, outcome, sleptFrom, debounceObs, pubObs, tickObs>>

\* lines 162-165: publish the initial status once
setupBoot ==
    /\ pc = "setup_boot"
    /\ IF PUBLISH_ON_BOOT
       THEN /\ dirty' = TRUE
            /\ pc' = "ensure"
            /\ inSetup' = TRUE
       ELSE /\ dirty' = dirty
            /\ pc' = "sample"
            /\ inSetup' = FALSE
    /\ pubsInPeriod' = Obs("pub", IF PUBLISH_ON_BOOT /\ ~dirty THEN 0
                                  ELSE pubsInPeriod, pubsInPeriod)
    /\ UNCHANGED <<changesInPeriod, totalPubs, publishedAt>>
    /\ NoElapse
    /\ UNCHANGED <<lastStable, lastRead, lastBounceAt, windowDeadline,
                   session, start, broker, envGood, outcome, sleptFrom,
                   debounceObs, firstMsg, reportedBeforeFirst, bootState, tickObs>>

\* ---------- ensureMqttAndPublishIfDirty() (part_001:123-145) ----------
\* where the caller continues after ensureMqttAndPublishIfDirty returns
Return ==
    /\ pc' = IF inSetup THEN "sample" ELSE "maintain"
    /\ inSetup' = FALSE

\* line 124, and wifiEnsureConnected up to the polling loop (lines 64-72)
ensureEntry ==
    /\ pc = "ensure"
    /\ IF ~dirty
       THEN /\ Return
            /\ UNCHANGED <<wifi, start>>
       ELSE IF wifi = "linked"
       THEN /\ pc' = "mqtt_check"
            /\ UNCHANGED <<wifi, start, inSetup>>
       ELSE /\ wifi' = "nolink"
            /\ start' = now
            /\ pc' = "wifi_poll"
            /\ UNCHANGED inSetup
    /\ NoElapse
    /\ UNCHANGED <<prog, mqtt, will, broker, envGood, outcome, sleptFrom,
                   debounceObs, pubObs, bootState, tickObs>>

\* variant: the polling loop does not wait for the link
PollAgain_NoWait(w, t, s, timeoutMs) == FALSE

\* variant: the polling loop has no time budget
PollAgain_Forever(w, t, s, timeoutMs) == w /= "linked"

\* loop condition of wifiEnsureConnected (part_001:73)
PollAgain(w, t, s, timeoutMs) == w /= "linked" /\ Minus(t, s) < timeoutMs

\* one evaluation of the polling loop: delay(50) and test again, or leave
wifiPoll ==
    /\ pc = "wifi_poll"
    /\ IF PollAgain(wifi, now, start, WIFI_TIMEOUT_MS)
       THEN /\ Elapse(1)
            /\ wifi' = IF envGood THEN "linked" ELSE wifi
            /\ pc' = pc
       ELSE /\ NoElapse
            /\ wifi' = wifi
            /\ pc' = "wifi_result"
    /\ UNCHANGED <<prog, mqtt, will, inSetup, start, broker, envGood,
                   outcome, sleptFrom, debounceObs, pubObs, bootState, tickObs>>

\* return WiFi.status() == WL_CONNECTED (line 77) and the test of line 128
wifiResult ==
    /\ pc = "wifi_result"
    /\ IF wifi = "linked"
       THEN /\ pc' = "mqtt_check"
            /\ UNCHANGED <<inSetup, outcome>>
       ELSE /\ outcome' = "link_timeout"
            /\ Return
    /\ start' = 0
    /\ NoElapse
    /\ UNCHANGED <<prog, session, broker, envGood, sleptFrom, debounceObs,
                   pubObs, bootState, tickObs>>

\* ---------- MQTT (part_001:89-111) ----------
\* what mqtt.connect() can answer: no link, no session
ConnectOutcomes ==
    IF wifi /= "linked" THEN {FALSE}
    ELSE IF envGood THEN {TRUE} ELSE BOOLEAN

\* what the mqtt.publish() of the birth message can answer
BirthOutcomes == IF envGood THEN {TRUE} ELSE BOOLEAN

\* mqttConnect(): connect with the last will, then the birth message (its
\* result is not looked at by the sketch)
mqttConnect(ok, birthOk) ==
    /\ mqtt' = ok
    /\ will' = IF ok THEN WILL_MSG ELSE "none"
    /\ retainedOnline' = IF ok /\ birthOk THEN BIRTH_MSG ELSE retainedOnline

\* variant: the session of the previous tick is taken to be still live
NeedConnect_Never(m) == FALSE

\* line 132: if (!mqtt.connected())
NeedConnect(m) == ~m

\* lines 132-138
mqttStage ==
    /\ pc = "mqtt_check"
    /\ IF NeedConnect(mqtt)
       THEN \E ok \in ConnectOutcomes, birthOk \in BirthOutcomes :
               /\ mqttConnect(ok, birthOk)
               /\ connectLog' = Obs("tick", Append(connectLog, "ensure"),
                                    connectLog)
               /\ IF ok
                  THEN /\ pc' = "publish"
                       /\ UNCHANGED <<inSetup, outcome>>
                  ELSE /\ outcome' = "session_rejected"
                       /\ Return
       ELSE /\ pc' = "publish"
            /\ UNCHANGED <<mqtt, will, retainedOnline, inSetup, outcome,
                           connectLog>>
    /\ NoElapse
    /\ UNCHANGED <<prog, wifi, start, retainedStatus, envGood, sleptFrom,
                   debounceObs, pubObs, bootState, changedAtExpiry>>

\* ---------- publishStatus() (part_001:113-121) ----------
\* what mqtt.publish() can answer
PublishOutcomes ==
    IF ~(mqtt /\ wifi = "linked") THEN {FALSE}
    ELSE IF envGood THEN {TRUE} ELSE BOOLEAN

\* variant: the window is extended whether or not the publish succeeded
DeadlineAfterPublish_Always(ok, t, old) == Plus(t, WINDOW_MS)
\* variant: the window is added to the old deadline
DeadlineAfterPublish_Accumulates(ok, t, old) ==
    IF ok THEN Plus(old, WINDOW_MS) ELSE old
\* variant: a successful publish leaves dirty set
DirtyAfterPublish_Keeps(ok, d) == d

\* lines 116-117: windowDeadline after publishStatus
DeadlineAfterPublish(ok, t, old) == IF ok THEN Plus(t, WINDOW_MS) ELSE old
\* lines 116 and 118: dirty after publishStatus
DirtyAfterPublish(ok, d) == IF ok THEN FALSE ELSE d

\* publishStatus(lastStable) and lines 139-144
publishStage ==
    /\ pc = "publish"
    /\ \E ok \in PublishOutcomes :
          LET msg == [payload |-> statusString(lastStable),
                      retained |-> STATUS_RETAINED]
          IN
          /\ windowDeadline' = DeadlineAfterPublish(ok, now, windowDeadline)
          /\ dirty' = DirtyAfterPublish(ok, dirty)
          /\ retainedStatus' = IF ok /\ msg.retained THEN msg.payload
                               ELSE retainedStatus
          /\ outcome' = IF ok THEN "published" ELSE "publish_failed"
          /\ pubsInPeriod' = Obs("pub", IF ok THEN Min(2, pubsInPeriod + 1)
                                         ELSE pubsInPeriod, pubsInPeriod)
          /\ totalPubs' = Obs("pub", IF ok THEN Min(2, totalPubs + 1)
                                      ELSE totalPubs, totalPubs)
          /\ firstMsg' = Obs("boot", IF ok /\ firstMsg = NoMsg THEN msg
                                     ELSE firstMsg, firstMsg)
          /\ publishedAt' = Obs("window", IF ok THEN now ELSE publishedAt,
                                publishedAt)
    /\ Return
    /\ NoElapse
    /\ UNCHANGED <<lastStable, lastRead, lastBounceAt, session, start,
                   retainedOnline, envGood, sleptFrom, debounceObs,
                   changesInPeriod, reportedBeforeFirst, bootState, tickObs>>

\* ---------- loop() (part_001:168-201) ----------
\* variant: no quiet time is required
DebounceElapsed_NoWait(t, bounceAt) == TRUE
\* variant: the quiet time must exceed the debounce time
DebounceElapsed_Strict(t, bounceAt) == Minus(t, bounceAt) > DEBOUNCE_MS

\* line 175, first conjunct: the raw read has been quiet for the debounce time
DebounceElapsed(t, bounceAt) == Minus(t, bounceAt) >= DEBOUNCE_MS

\* 1) read the switch with debounce (lines 170-180)
loopDebounce ==
    /\ pc = "sample"
    /\ \E v \in PinLevels :
          LET nowRead == readLogical(v)
              changed == (nowRead /= lastRead)
              bounceAt == IF changed THEN now ELSE lastBounceAt
              commit == DebounceElapsed(now, bounceAt) /\ lastStable /= nowRead
          IN
          /\ lastRead' = nowRead
          /\ lastBounceAt' = bounceAt
          /\ lastStable' = IF commit THEN nowRead ELSE lastStable
          /\ dirty' = IF commit THEN TRUE ELSE dirty
          /\ stableFor' = IF changed THEN 0 ELSE stableFor
          /\ reportsInRun' =
                Obs("debounce", Min(2, (IF changed THEN 0 ELSE reportsInRun)
                                       + (IF commit THEN 1 ELSE 0)),
                    reportsInRun)
          /\ runDiffers' = Obs("debounce", IF changed THEN nowRead /= lastStable
                                           ELSE runDiffers, runDiffers)
          /\ pubsInPeriod' = Obs("pub", IF commit /\ ~dirty THEN 0
                                        ELSE pubsInPeriod, pubsInPeriod)
          /\ changesInPeriod' =
                Obs("pub", IF ~commit THEN changesInPeriod
                           ELSE IF ~dirty THEN 1
                           ELSE Min(2, changesInPeriod + 1), changesInPeriod)
          /\ reportedBeforeFirst' =
                Obs("boot", reportedBeforeFirst \/ (commit /\ firstMsg = NoMsg),
                    reportedBeforeFirst)
          /\ changedAtExpiry' =
                Obs("tick", commit /\ mqtt
                            /\ 2 * ((now - windowDeadline) % TimeMod) < TimeMod,
                    changedAtExpiry)
    /\ connectLog' = <<>>
    /\ outcome' = "none"
    /\ sleptFrom' = "none"
    /\ now' = now
    /\ pc' = "ensure"
    /\ UNCHANGED <<windowDeadline, session, inSetup, start, broker, envGood,
                   totalPubs, firstMsg, bootState, publishedAt, watch>>

\* variant: the window is taken to be over at any time
WindowExpired_Always(t, deadline) == TRUE
\* line 188: (long)(millis() - windowDeadline) >= 0
WindowExpired(t, deadline) == SignedNonNeg(Minus(t, deadline))

\* line 194: (windowDeadline != 0) && (millis() <= windowDeadline)
WithinWindow(t, deadline) == deadline /= 0 /\ t <= deadline

\* variant: the radio is powered down although a status is pending
ShouldSleep_IgnoresDirty(m, d, t, deadline) == m /\ WindowExpired(t, deadline)
\* line 186 and 188: step 3 powers the radio down
ShouldSleep(m, d, t, deadline) == m /\ ~d /\ WindowExpired(t, deadline)

\* variant: the reconnect does not look at the link
ShouldReconnect_NoLinkCheck(m, w, t, deadline) ==
    ~m /\ WithinWindow(t, deadline)
\* line 186 and 194: step 3 reconnects the broker session only
ShouldReconnect(m, w, t, deadline) ==
    ~m /\ w = "linked" /\ WithinWindow(t, deadline)

\* 3) maintain the connection during the window (lines 185-198)
loopMaintain ==
    /\ pc = "maintain"
    /\ IF ShouldSleep(mqtt, dirty, now, windowDeadline)
       THEN /\ pc' = "sleep"
            /\ UNCHANGED <<mqtt, will, retainedOnline, connectLog>>
       ELSE IF ShouldReconnect(mqtt, wifi, now, windowDeadline)
       THEN \E ok \in ConnectOutcomes, birthOk \in BirthOutcomes :
               /\ mqttConnect(ok, birthOk)
               /\ connectLog' = Obs("tick", Append(connectLog, "reconnect"),
                                    connectLog)
               /\ pc' = "delay"
       ELSE /\ pc' = "delay"
            /\ UNCHANGED <<mqtt, will, retainedOnline, connectLog>>
    /\ NoElapse
    /\ UNCHANGED <<prog, wifi, inSetup, start, retainedStatus, envGood,
                   outcome, sleptFrom, debounceObs, pubObs, bootState,
                   changedAtExpiry>>

\* delay(10) (line 200)
loopDelay ==
    /\ pc = "delay"
    /\ \E dt \in 1..MaxDelay : Elapse(dt)
    /\ pc' = "sample"
    /\ UNCHANGED <<prog, session, inSetup, start, broker, envGood, outcome,
                   sleptFrom, debounceObs, pubObs, bootState, tickObs>>

\* ---------- environment: the access point and the broker ----------
\* the radio is on and associates
linkUp ==
    /\ wifi = "nolink"
    /\ wifi' = "linked"
    /\ UNCHANGED <<now, prog, mqtt, will, pc, inSetup, start, broker,
                   envGood, outcome, sleptFrom, stableFor,
                   debounceObs, pubObs, bootState, tickObs>>

\* the broker session ends without DISCONNECT: the broker publishes the will
sessionDrop ==
    /\ ~envGood
    /\ mqtt
    /\ mqtt' = FALSE
    /\ retainedOnline' = will
    /\ will' = "none"
    /\ UNCHANGED <<now, prog, wifi, pc, inSetup, start, retainedStatus,
                   envGood, outcome, sleptFrom, stableFor,
                   debounceObs, pubObs, bootState, tickObs>>

\* the link is lost, and with it the session if there is one
linkDrop ==
    /\ ~envGood
    /\ wifi = "linked"
    /\ wifi' = "nolink"
    /\ mqtt' = FALSE
    /\ retainedOnline' = IF mqtt THEN will ELSE retainedOnline
    /\ will' = "none"
    /\ UNCHANGED <<now, prog, pc, inSetup, start, retainedStatus,
                   envGood, outcome, sleptFrom, stableFor,
                   debounceObs, pubObs, bootState, tickObs>>

\* the network and the broker become and stay reachable
envRecover ==
    /\ ~envGood
    /\ envGood' = TRUE
    /\ UNCHANGED <<now, prog, session, pc, inSetup, start, broker,
                   outcome, sleptFrom, stableFor,
                   debounceObs, pubObs, bootState, tickObs>>

\* ---------- the system ----------
\* globals as constructed (part_001:27-39); the radio is in whatever state
\* the boot ROM left it
Boot ==
    /\ now = 0
    /\ lastStable = FALSE
    /\ lastRead = FALSE
    /\ lastBounceAt = 0
    /\ dirty = FALSE
    /\ windowDeadline = 0
    /\ wifi \in {"off", "nolink", "linked"}
    /\ mqtt = FALSE
    /\ will = "none"
    /\ pc = "setup"
    /\ inSetup = TRUE
    /\ start = 0
    /\ retainedStatus = "none"
    /\ retainedOnline = "none"
    /\ envGood = FALSE
    /\ outcome = "none"
    /\ sleptFrom = "none"
    /\ stableFor = 0
    /\ reportsInRun = 0
    /\ pubsInPeriod = 0
    /\ changesInPeriod = 0
    /\ totalPubs = 0
    /\ runDiffers = FALSE
    /\ firstMsg = NoMsg
    /\ bootState = FALSE
    /\ reportedBeforeFirst = FALSE
    /\ publishedAt = 0
    /\ connectLog = <<>>
    /\ changedAtExpiry = FALSE

\* no observer group records in the plain system
Init == Boot /\ watch = {}

\* the steps of the sketch
Sketch ==
    \/ setup
    \/ wifiRadioSleep
    \/ setupBoot
    \/ ensureEntry
    \/ wifiPoll
    \/ wifiResult
    \/ mqttStage
    \/ publishStage
    \/ loopDebounce
    \/ loopMaintain
    \/ loopDelay

Environment ==
    \/ linkUp
    \/ sessionDrop
    \/ linkDrop

Next == Sketch \/ Environment

Spec == Init /\ [][Next]_vars

\* the sketch always takes its next step: loop() is called again for ever
FairSpec == Spec /\ WF_vars(Sketch)

\* the same system with one group of observers recording
InitPub == Boot /\ watch = {"pub"}
SpecPub == InitPub /\ [][Next]_vars
InitDebounce == Boot /\ watch = {"debounce"}
SpecDebounce == InitDebounce /\ [][Next]_vars
InitBoot == Boot /\ watch = {"boot"}
SpecBoot == InitBoot /\ [][Next]_vars
InitTick == Boot /\ watch = {"tick"}
SpecTick == InitTick /\ [][Next]_vars
InitWindow == Boot /\ watch = {"window"}
SpecWindow == InitWindow /\ [][Next]_vars

\* the system in which the network and the broker may recover for good
NextRecover == Next \/ envRecover
RecoverSpec == Init /\ [][NextRecover]_vars /\ WF_vars(Sketch)

TypeOK ==
    /\ now \in Time /\ lastBounceAt \in Time /\ windowDeadline \in Time
    /\ start \in Time
    /\ lastStable \in BOOLEAN /\ lastRead \in BOOLEAN /\ dirty \in BOOLEAN
    /\ wifi \in {"off", "nolink", "linked"}
    /\ mqtt \in BOOLEAN
    /\ mqtt => wifi = "linked"

\* ---------- C1 ----------
\* C1: in every contiguous period with dirty set there is exactly one
\* successful status publish, the one that ends the period, however many
\* stable-state changes fall in the period; its payload is the stable state
\* at the time of the publish call.
C1_OnePublishPerDirtyPeriod ==
    [][ /\ (dirty' => pubsInPeriod' = 0)
        /\ (~dirty' /\ ~inSetup' => pubsInPeriod' = 1)
        /\ (pubsInPeriod' /= pubsInPeriod /\ pubsInPeriod' /= 0
              => /\ dirty /\ ~dirty'
                 /\ retainedStatus' = (IF lastStable THEN "open" ELSE "closed"))
      ]_vars

\* a period with two stable-state changes has been closed by its one publish
C1_Witness ==
    ~dirty /\ pubsInPeriod = 1 /\ changesInPeriod = 2 /\ outcome = "published"

\* ---------- C2 ----------
\* C2: once the network and the broker stay reachable, a pending status is
\* eventually published: dirty becomes false with the broker's retained
\* status equal to the stable state.
C2_PendingEventuallyPublished ==
    (dirty /\ envGood) ~>
        (~dirty /\ retainedStatus = (IF lastStable THEN "open" ELSE "closed"))

\* a tick failed, the environment recovered, and the status is still pending
C2_Witness ==
    envGood /\ ~dirty /\ outcome = "published" /\ retainedOnline = "true"
    /\ retainedStatus = (IF lastStable THEN "open" ELSE "closed")
    /\ lastStable /= lastRead

\* ---------- C3 ----------
\* C3: after a failure in a tick (link timeout, session rejected, publish
\* failed) dirty is still set, the window deadline is not moved in the rest
\* of the tick, and the sketch is at a position from which loop() goes on.
C3_FailureKeepsDirty ==
    [][ outcome' \in Failures
          => /\ dirty'
             /\ windowDeadline' = windowDeadline
             /\ pc' \in {"sample", "maintain", "delay"}
      ]_vars

\* a publish failed inside an open window: the deadline of the earlier
\* publish is still there and the status is still pending
C3_Witness ==
    outcome = "publish_failed" /\ dirty /\ windowDeadline /= 0
    /\ pc = "delay"

\* ---------- C4 ----------
\* C4: a successful status publish sets the deadline to the time of the
\* publish plus WINDOW_MS (in the arithmetic of millis()) and clears dirty;
\* no other step changes the deadline.
C4_WindowReset ==
    [][ /\ (pc = "publish" /\ outcome' = "published"
              => /\ windowDeadline' = (now + WINDOW_MS) % TimeMod
                 /\ ~dirty')
        /\ (windowDeadline' /= windowDeadline
              => pc = "publish" /\ outcome' = "published")
      ]_vars

\* a second publish has replaced the deadline of the first
C4_Witness ==
    totalPubs = 2 /\ outcome = "published" /\ pc = "maintain"
    /\ windowDeadline = (now + WINDOW_MS) % TimeMod

\* ---------- C5 ----------
\* C5 (as claimed): step 3 of a tick calls wifiRadioSleep if and only if
\* dirty is false and the window deadline has been reached.
C5_TeardownIff ==
    [][ pc = "maintain" /\ pc' /= "maintain"
          => ((pc' = "sleep")
                <=> (~dirty /\ 2 * ((now - windowDeadline) % TimeMod) < TimeMod))
      ]_vars

\* ---------- C6 ----------
\* a publish has succeeded, nothing is pending, the window is over
C6_ExpiredIdle ==
    ~inSetup /\ ~dirty /\ 2 * ((now - windowDeadline) % TimeMod) < TimeMod
C6_OffOrPending == wifi = "off" \/ dirty

\* C6 (as claimed): after a publish, when the window has expired and nothing
\* is pending, the radio is eventually powered down (or a new change becomes
\* pending), whatever the session state is.
C6_RadioEventuallyOff == C6_ExpiredIdle ~> C6_OffOrPending

\* ---------- C7 ----------
\* C7: apart from the initialisation in setup(), the stable state changes
\* only in the debounce step, only to the sampled value, and only when the
\* samples have been unchanged for at least DEBOUNCE_MS; the debounce step
\* sets dirty only together with such a change.
C7_DebounceStability ==
    [][ /\ (lastStable' /= lastStable /\ pc /= "setup"
              => /\ pc = "sample"
                 /\ stableFor' >= DEBOUNCE_MS
                 /\ lastStable' = lastRead')
        /\ (pc = "sample" /\ dirty' /= dirty => lastStable' /= lastStable)
      ]_vars

\* a bounce shorter than the debounce time has come and gone unreported
C7_Witness ==
    /\ pc = "ensure" /\ ~inSetup
    /\ stableFor = 0 /\ reportsInRun = 0 /\ ~runDiffers
    /\ lastRead = lastStable /\ now > 0 /\ ~dirty

\* ---------- C8 ----------
\* C8: after every debounce step, a sampled level held for DEBOUNCE_MS is the
\* stable state; a run of equal samples that began unlike the stable state
\* and has lasted DEBOUNCE_MS has been reported exactly once, a run that
\* began like the stable state has not been reported; a report sets dirty.
C8_ExactlyOneReport ==
    [][ pc = "sample" /\ pc' = "ensure"
          => /\ (stableFor' >= DEBOUNCE_MS => lastStable' = lastRead')
             /\ reportsInRun' <= 1
             /\ (runDiffers' /\ stableFor' >= DEBOUNCE_MS => reportsInRun' = 1)
             /\ (~runDiffers' => reportsInRun' = 0)
             /\ (reportsInRun' > reportsInRun
                   => dirty' /\ lastStable' /= lastStable)
             /\ (lastStable' /= lastStable => reportsInRun' = 1)
      ]_vars

\* the level was reported once and has been held long after that
C8_Witness ==
    /\ pc = "ensure" /\ reportsInRun = 1 /\ runDiffers
    /\ stableFor = StableCap /\ lastStable = lastRead

\* ---------- C9 ----------
\* C9 (as claimed): the first status message ever published carries the
\* stable state read at boot, retained, and no door transition has been
\* reported before it.
C9_FirstIsBootState ==
    firstMsg /= NoMsg
        => /\ firstMsg.payload = (IF bootState THEN "open" ELSE "closed")
           /\ firstMsg.retained
           /\ ~reportedBeforeFirst

\* C9 (amended): the first status message ever published is retained; it
\* carries the stable state read at boot unless a door transition was
\* reported before it, and the publish made in setup() is never preceded by
\* a report.
C9_FirstIsBootStateUnlessReported ==
    /\ (firstMsg /= NoMsg
          => /\ firstMsg.retained
             /\ (~reportedBeforeFirst
                   => firstMsg.payload = (IF bootState THEN "open" ELSE "closed")))
    /\ (inSetup => ~reportedBeforeFirst)

\* setup() itself published the state read at boot, here "open"
C9_Witness ==
    /\ pc = "sample" /\ outcome = "published"
    /\ firstMsg = [payload |-> "open", retained |-> TRUE]
    /\ bootState /\ ~reportedBeforeFirst /\ retainedStatus = "open"

\* ---------- C10 ----------
\* C10: wifiRadioSleep ends in RadioOff from every session state, a second
\* call changes nothing, and it leaves dirty, the stable state and the
\* window deadline alone.
C10_TeardownIdempotent ==
    [][ pc = "sleep" /\ pc' /= "sleep"
          => /\ SessionState(wifi', mqtt') = "RadioOff"
             /\ UNCHANGED <<dirty, lastStable, windowDeadline>>
             /\ LET once == wifiRadioSleepTo(wifi, mqtt)
                IN  wifiRadioSleepTo(once.wifi, once.mqtt) = once
             /\ pc' \in {"setup_boot", "delay"}
      ]_vars

\* wifiRadioSleep was called with the radio already off
C10_Witness ==
    sleptFrom = "RadioOff" /\ wifi = "off" /\ ~mqtt /\ pc = "setup_boot"

\* ---------- C11 ----------
\* C11 (as claimed): every step that establishes the broker session leaves
\* the will "false" registered and the retained availability value "true";
\* the two payloads differ.
C11_BirthAfterConnect ==
    [][ mqtt' /\ ~mqtt
          => /\ will' = "false"
             /\ retainedOnline' = "true"
             /\ WILL_MSG /= BIRTH_MSG
      ]_vars

\* ---------- C12 ----------
\* C12: the sketch comes to publishStatus only from the session check of the
\* same tick, with the session live and the link up when that check is
\* left; it comes to the session check only from a link test that found the
\* link up; a publish succeeds only on a live session.
C12_PublishAfterCheck ==
    [][ /\ (pc' = "publish" /\ pc /= "publish"
              => pc = "mqtt_check" /\ mqtt' /\ wifi' = "linked")
        /\ (pc' = "mqtt_check" /\ pc /= "mqtt_check"
              => pc \in {"ensure", "wifi_result"} /\ wifi = "linked")
        /\ (pc = "publish" /\ outcome' = "published"
              => mqtt /\ wifi = "linked")
      ]_vars

\* the session of an earlier publish was lost and has been set up again in
\* this tick, before the publish
C12_Witness ==
    /\ pc = "publish" /\ ~inSetup /\ mqtt /\ wifi = "linked"
    /\ connectLog = <<"ensure">> /\ retainedStatus /= "none"

\* ---------- C13 ----------
\* C13 (as claimed): step 3 calls mqttConnect only with no live session, the
\* link up, a publish in the past and the window not yet over (now before
\* the deadline), and it does not touch the radio.
C13_ReconnectOnlyInWindow ==
    [][ pc = "maintain" /\ connectLog' /= connectLog
          => /\ ~mqtt
             /\ wifi = "linked" /\ wifi' = "linked"
             /\ retainedStatus /= "none"
             /\ windowDeadline /= 0
             /\ ~(2 * ((now - windowDeadline) % TimeMod) < TimeMod)
      ]_vars

\* ---------- C14 ----------
\* C14 (as claimed): a tick of loop() in which the link timed out or the
\* session was rejected makes at most one call of mqttConnect, no reconnect
\* in step 3 and no teardown.
C14_FailureStopsTick ==
    ~inSetup /\ pc /= "sample"
    /\ outcome \in {"link_timeout", "session_rejected"}
        => /\ Len(connectLog) <= 1
           /\ "reconnect" \notin {connectLog[i] : i \in DOMAIN connectLog}
           /\ sleptFrom = "none"
           /\ pc /= "sleep"

\* ---------- C15 ----------
\* C15: loop() goes to wifiRadioSleep only from step 3, and only with dirty
\* false and the deadline reached; both still hold when wifiRadioSleep runs.
C15_NoEarlyTeardown ==
    [][ /\ (pc' = "sleep" /\ pc /= "sleep" /\ pc /= "setup"
              => /\ pc = "maintain"
                 /\ ~dirty
                 /\ 2 * ((now - windowDeadline) % TimeMod) < TimeMod)
        /\ (pc = "sleep" /\ ~inSetup /\ pc' /= "sleep"
              => /\ ~dirty
                 /\ 2 * ((now - windowDeadline) % TimeMod) < TimeMod)
      ]_vars

\* a tick has powered the radio down from a live session, window over
C15_Witness ==
    /\ pc = "delay" /\ sleptFrom = "RadioOnLinkedWithSession"
    /\ wifi = "off" /\ ~dirty /\ outcome = "none"
    /\ 2 * ((now - windowDeadline) % TimeMod) < TimeMod

\* ---------- C16 ----------
\* C16: in a tick that reports a change with the session live and the window
\* over there is no teardown; at the end of the tick either the publish has
\* succeeded, dirty is false and the deadline is now + WINDOW_MS, or dirty is
\* still set.
C16_ChangeAtExpiryKeepsSession ==
    changedAtExpiry
        => /\ pc /= "sleep"
           /\ sleptFrom = "none"
           /\ (pc \in {"maintain", "delay"}
                 => IF outcome = "published"
                    THEN ~dirty /\ windowDeadline = (now + WINDOW_MS) % TimeMod
                    ELSE dirty)
           /\ (pc \notin {"maintain", "delay"}
                 => (dirty <=> outcome /= "published"))

\* such a tick has published and kept its session
C16_Witness ==
    /\ changedAtExpiry /\ pc = "delay" /\ outcome = "published"
    /\ mqtt /\ ~dirty /\ windowDeadline = (now + WINDOW_MS) % TimeMod

\* ---------- C17 ----------
\* the polling loop never runs past its budget
C17_PollBounded ==
    pc = "wifi_poll" => (now - start) % TimeMod <= WIFI_TIMEOUT_MS
\* the polling loop goes round only without link and within the budget,
\* leaves otherwise, and the result is the link status when it returns
C17_PollExit ==
    /\ (pc = "wifi_poll" /\ now' /= now
          => wifi /= "linked" /\ (now - start) % TimeMod < WIFI_TIMEOUT_MS)
    /\ (pc = "wifi_poll" /\ pc' /= pc
          => wifi = "linked" \/ (now - start) % TimeMod >= WIFI_TIMEOUT_MS)
    /\ (pc = "wifi_result" /\ pc' /= pc
          => (pc' = "mqtt_check" <=> wifi = "linked"))
C17_CallReturns == (pc = "ensure") ~> (pc = "maintain" \/ pc = "sample")
C17_TickEnds == (pc = "sample") ~> (pc = "delay")

\* C17: wifiEnsureConnected polls within its budget and returns the link
\* status; every call of ensureMqttAndPublishIfDirty returns and every tick
\* reaches its end, whatever the link and the broker do.
C17_EnsureTerminates ==
    /\ []C17_PollBounded
    /\ [][C17_PollExit]_vars
    /\ C17_CallReturns
    /\ C17_TickEnds

\* the link did not come up and the call returned after the budget
C17_Witness ==
    /\ outcome = "link_timeout" /\ wifi = "nolink" /\ pc = "maintain"
    /\ dirty /\ now >= WIFI_TIMEOUT_MS

\* ---------- C18 ----------
\* C18: mqttConnect is called at its two call sites only: after a link test
\* of the same tick that found the link up, or in step 3 with the link up;
\* a session comes to life only while the link is up, and never without it.
C18_ConnectOnlyWithLink ==
    [][ /\ (connectLog' /= connectLog /\ connectLog' /= <<>>
              => \/ pc = "mqtt_check"
                 \/ pc = "maintain" /\ wifi = "linked" /\ wifi' = "linked")
        /\ (pc' = "mqtt_check" /\ pc /= "mqtt_check"
              => wifi = "linked" /\ wifi' = "linked")
        /\ (mqtt' /\ ~mqtt => wifi = "linked" /\ wifi' = "linked")
        /\ (mqtt' => wifi' = "linked")
      ]_vars

\* step 3 has set the session up again over the link that stayed up
C18_Witness ==
    /\ pc = "delay" /\ connectLog = <<"reconnect">> /\ mqtt
    /\ wifi = "linked" /\ ~dirty

\* ---------- C19 ----------
\* C19 (as claimed): after a publish at time t (all times modulo the width of
\* millis()), the reconnect test holds exactly at the times t .. t +
\* WINDOW_MS - 1, the expiry test does not hold before t + WINDOW_MS and
\* holds from then on, and the two never hold together.
C19_WindowTestsAgree ==
    retainedStatus /= "none"
        => LET e == (now - publishedAt) % TimeMod
               within == windowDeadline /= 0 /\ now <= windowDeadline
               expired == 2 * ((now - windowDeadline) % TimeMod) < TimeMod
           IN  /\ (within <=> e < WINDOW_MS)
               /\ (e < WINDOW_MS => ~expired)
               /\ (e >= WINDOW_MS /\ 2 * (e - WINDOW_MS) < TimeMod => expired)
               /\ ~(within /\ expired)

\* ---------- C20 ----------
\* C20 (as claimed): wifiRadioSleep leaves both retained values alone, the
\* retained availability value becomes "false" only when the environment
\* drops a live session, and it reads "true" when loop() powers down a live
\* session.
C20_TeardownKeepsAvailability ==
    [][ /\ (pc = "sleep" /\ pc' /= "sleep"
              => /\ retainedOnline' = retainedOnline
                 /\ retainedStatus' = retainedStatus
                 /\ (~inSetup /\ mqtt => retainedOnline' = "true"))
        /\ (retainedOnline' = "false" /\ retainedOnline /= "false"
              => pc' = pc /\ mqtt /\ ~mqtt')
      ]_vars

====
